---- MODULE Spec2Model ----
(***************************************************************************)
(* PivotTableConfigurator (pivot_manager.py): one configurator bound to a  *)
(* target .xlsx path, and successive calls of set_refresh_on_load on it.   *)
(* The filesystem holds two files, the target and its derived backup.      *)
(* A call is modelled statement by statement: backup, load, sheet lookup,  *)
(* the loop over the sheet's pivot tables, the pivot_found test, the save, *)
(* the except handler and the finally block.                               *)
(***************************************************************************)
EXTENDS Integers, Sequences, FiniteSets, TLC

\* ---------------------------------------------------------------- bounds
MaxPivots == 2      \* pivot tables on the sheet "Geral"

\* ---------------------------------------------------------------- domains
PivotNames == {"", "P1", "P2"}
SheetArgs  == {"Geral", "Resumo"}
CacheIds   == {"c1", "c2"}

\* Optional[str]: None, or a given string (possibly the empty string).
None == [given |-> FALSE, name |-> ""]
Str(s) == [given |-> TRUE, name |-> s]
PivotArgs == {None} \cup {Str(s) : s \in PivotNames}

\* A pivot table of a worksheet: its name and the cache definition it
\* references (openpyxl resolves cacheId to one shared CacheDefinition).
Pivots == [name : PivotNames, cache : CacheIds]

SeqsUpTo(S, n) == UNION {[1..k -> S] : k \in 0..n}

Worksheet(ps) == [chart |-> FALSE, pivots |-> ps]
Chartsheet == [chart |-> TRUE, pivots |-> <<>>]

\* ---------------------------------------------------------------- files
\* A file's content.  kind "xlsx" is a well-formed package; ser tells the
\* serialisation apart: the bytes the file came with ("orig") or the bytes
\* openpyxl writes ("openpyxl").  kind "partial" is a truncated write.
Absent == [kind |-> "absent", sheets |-> <<>>, flags |-> <<>>, ser |-> "none"]
Partial == [kind |-> "partial", sheets |-> <<>>, flags |-> <<>>, ser |-> "none"]
Xlsx(sh, fl, ser) == [kind |-> "xlsx", sheets |-> sh, flags |-> fl, ser |-> ser]

\* The second sheet of a workbook, when it has one.
ResumoVariants == { Chartsheet }

SheetLayouts ==
    { [s \in {"Geral"} |-> Worksheet(ps)] : ps \in SeqsUpTo(Pivots, MaxPivots) }
    \cup
    { [s \in {"Geral", "Resumo"} |->
          IF s = "Geral" THEN Worksheet(ps) ELSE r] :
        ps \in SeqsUpTo(Pivots, MaxPivots), r \in ResumoVariants }

InitialFiles ==
    {Absent, Partial}
    \cup { Xlsx(sh, fl, "orig") : sh \in SheetLayouts, fl \in [CacheIds -> BOOLEAN] }

\* ---------------------------------------------------------------- workbook
\* The local variable wb: unbound until load_workbook returns.
NoWb == [bound |-> FALSE, sheets |-> <<>>, flags |-> <<>>]

\* load_workbook(path, keep_vba=True): the parsed model of a package.
LoadWorkbookModel(f) == [bound |-> TRUE, sheets |-> f.sheets, flags |-> f.flags]

\* wb.save(path): the package openpyxl writes for the model.
Serialize(w) == Xlsx(w.sheets, w.flags, "openpyxl")

\* Python truthiness of pivot_name: None and "" are falsy.
TruthyNeverEmpty(p) == p.given
Truthy(p) == p.given /\ p.name # ""

\* The loop's test, negated: the pivot is not skipped by `continue`.
SelectedAll(p, pivot) == TRUE
Selected(p, pivot) == ~(Truthy(p) /\ pivot.name # p.name)

VARIABLES
    fs_target,    \* content of self.file_path
    fs_backup,    \* content of the derived backup path
    pc,           \* position in set_refresh_on_load
    sheet_name, pivot_name,   \* the call's arguments
    wb,           \* local wb
    pivot_found,  \* local pivot_found
    idx,          \* position of the for loop in ws._pivots
    ret,          \* "none" while running, "true"/"false" returned, "raised"
    closes,       \* number of wb.close() calls of this call
    pre,          \* history: files at the start of the call
    hist,         \* history: what the call did
    prev          \* history: the previous call had the same arguments; its result

vars == <<fs_target, fs_backup, pc, sheet_name, pivot_name, wb, pivot_found,
          idx, ret, closes, pre, hist, prev>>

NoHist == [backup |-> "none", opened |-> FALSE,
           touched |-> {}, saveStarted |-> FALSE, saved |-> FALSE,
           raisedAt |-> "none", exit |-> "none"]
NoPrev == [same |-> FALSE, ret |-> "none"]

Init ==
    /\ fs_target \in InitialFiles
    /\ fs_backup = Absent
    /\ pc = "idle"
    /\ sheet_name = "Geral"
    /\ pivot_name = None
    /\ wb = NoWb
    /\ pivot_found = FALSE
    /\ idx = 1
    /\ ret = "none"
    /\ closes = 0
    /\ pre = [target |-> Absent, backup |-> Absent]
    /\ hist = NoHist
    /\ prev = NoPrev

\* ---------------------------------------------------------------- the call
\* Entry of set_refresh_on_load(sheet_name, pivot_name).
Call ==
    /\ pc \in {"idle", "done"}
    /\ \E s \in SheetArgs, p \in PivotArgs :
          /\ sheet_name' = s
          /\ pivot_name' = p
          /\ prev' = [same |-> (pc = "done" /\ s = sheet_name /\ p = pivot_name),
                      ret |-> ret]
    /\ pc' = "backup"
    /\ wb' = NoWb
    /\ pivot_found' = FALSE
    /\ idx' = 1
    /\ ret' = "none"
    /\ closes' = 0
    /\ pre' = [target |-> fs_target, backup |-> fs_backup]
    /\ hist' = NoHist
    /\ UNCHANGED <<fs_target, fs_backup>>

Raise(where) ==
    /\ pc' = "except"
    /\ hist' = [hist EXCEPT !.raisedAt = where]

\* _create_backup: FileNotFoundError when the target does not exist.
BackupMissing ==
    /\ pc = "backup"
    /\ fs_target.kind = "absent"
    /\ Raise("backup")
    /\ UNCHANGED <<fs_target, fs_backup, sheet_name, pivot_name, wb,
                   pivot_found, idx, ret, closes, pre, prev>>

\* shutil.copy2(file_path, backup_path): the copy's content.
CopyKeepExisting(src, dst) == IF dst.kind = "absent" THEN src ELSE dst
Copy2(src, dst) == src

\* _create_backup: the copy completes.
BackupMoves ==
    /\ pc = "backup"
    /\ fs_target.kind # "absent"
    /\ fs_backup' = Copy2(fs_target, fs_backup)
    /\ fs_target' = Absent
    /\ pc' = "load"
    /\ hist' = [hist EXCEPT !.backup = "copied"]
    /\ UNCHANGED <<sheet_name, pivot_name, wb, pivot_found, idx,
                   ret, closes, pre, prev>>

BackupCopy ==
    /\ pc = "backup"
    /\ fs_target.kind # "absent"
    /\ fs_backup' = Copy2(fs_target, fs_backup)
    /\ pc' = "load"
    /\ hist' = [hist EXCEPT !.backup = "copied"]
    /\ UNCHANGED <<fs_target, sheet_name, pivot_name, wb, pivot_found, idx,
                   ret, closes, pre, prev>>

\* _create_backup: shutil.copy2 raises OSError (destination not writable,
\* device full); the destination is untouched or left truncated.
BackupCopyFails ==
    /\ pc = "backup"
    /\ fs_target.kind # "absent"
    /\ fs_backup' \in {fs_backup, Partial}
    /\ pc' = "except"
    /\ hist' = [hist EXCEPT !.backup = "failed", !.raisedAt = "backup"]
    /\ UNCHANGED <<fs_target, sheet_name, pivot_name, wb, pivot_found, idx,
                   ret, closes, pre, prev>>

\* wb = load_workbook(self.file_path, keep_vba=True)
LoadWorkbook ==
    /\ pc = "load"
    /\ fs_target.kind = "xlsx"
    /\ wb' = LoadWorkbookModel(fs_target)
    /\ pc' = "lookup"
    /\ hist' = [hist EXCEPT !.opened = TRUE]
    /\ UNCHANGED <<fs_target, fs_backup, sheet_name, pivot_name, pivot_found,
                   idx, ret, closes, pre, prev>>

\* load_workbook raises: the file is no zip package, or reading it fails.
\* wb stays unbound.
LoadWorkbookFails ==
    /\ pc = "load"
    /\ Raise("load")
    /\ UNCHANGED <<fs_target, fs_backup, sheet_name, pivot_name, wb,
                   pivot_found, idx, ret, closes, pre, prev>>

\* if sheet_name not in wb.sheetnames: return False
SheetMissingReturnsTrue ==
    /\ pc = "lookup"
    /\ sheet_name \notin DOMAIN wb.sheets
    /\ ret' = "true"
    /\ pc' = "finally"
    /\ hist' = [hist EXCEPT !.exit = "sheet_missing"]
    /\ UNCHANGED <<fs_target, fs_backup, sheet_name, pivot_name, wb,
                   pivot_found, idx, closes, pre, prev>>

SheetMissing ==
    /\ pc = "lookup"
    /\ sheet_name \notin DOMAIN wb.sheets
    /\ ret' = "false"
    /\ pc' = "finally"
    /\ hist' = [hist EXCEPT !.exit = "sheet_missing"]
    /\ UNCHANGED <<fs_target, fs_backup, sheet_name, pivot_name, wb,
                   pivot_found, idx, closes, pre, prev>>

\* ws = wb[sheet_name]; pivot_found = False; for pivot in ws._pivots:
\* a chartsheet has no _pivots attribute (AttributeError).
SheetLookup ==
    /\ pc = "lookup"
    /\ sheet_name \in DOMAIN wb.sheets
    /\ IF wb.sheets[sheet_name].chart
         THEN /\ Raise("lookup")
              /\ UNCHANGED <<pivot_found, idx>>
         ELSE /\ pc' = "loop"
              /\ pivot_found' = FALSE
              /\ idx' = 1
              /\ UNCHANGED hist
    /\ UNCHANGED <<fs_target, fs_backup, sheet_name, pivot_name, wb, ret,
                   closes, pre, prev>>

ws == wb.sheets[sheet_name]

\* pivot.cache.refreshOnLoad = True, on the cache object the pivot references.
ToggleRefresh(w, cache) == [w EXCEPT !.flags[cache] = ~@]
SetRefresh(w, cache) == [w EXCEPT !.flags[cache] = TRUE]

\* One iteration of the for loop.
LoopStep ==
    /\ pc = "loop"
    /\ idx <= Len(ws.pivots)
    /\ LET pivot == ws.pivots[idx] IN
         IF Selected(pivot_name, pivot)
           THEN /\ wb' = SetRefresh(wb, pivot.cache)
                /\ pivot_found' = TRUE
                /\ hist' = [hist EXCEPT !.touched = @ \cup {idx}]
           ELSE UNCHANGED <<wb, pivot_found, hist>>
    /\ idx' = idx + 1
    /\ UNCHANGED <<fs_target, fs_backup, pc, sheet_name, pivot_name, ret,
                   closes, pre, prev>>

\* An iteration raises (the assignment to pivot.cache.refreshOnLoad fails).
LoopStepFails ==
    /\ pc = "loop"
    /\ idx <= Len(ws.pivots)
    /\ Selected(pivot_name, ws.pivots[idx])
    /\ Raise("mutate")
    /\ UNCHANGED <<fs_target, fs_backup, sheet_name, pivot_name, wb,
                   pivot_found, idx, ret, closes, pre, prev>>

\* After the loop: if not pivot_found: return False
LoopEndSavesAnyway ==
    /\ pc = "loop"
    /\ idx > Len(ws.pivots)
    /\ IF ~pivot_found
         THEN /\ ret' = "false"
              /\ pc' = "finally"
              /\ fs_target' = Serialize(wb)
              /\ hist' = [hist EXCEPT !.exit = "no_match"]
         ELSE /\ pc' = "save"
              /\ UNCHANGED <<ret, hist, fs_target>>
    /\ UNCHANGED <<fs_backup, sheet_name, pivot_name, wb, pivot_found,
                   idx, closes, pre, prev>>

LoopEnd ==
    /\ pc = "loop"
    /\ idx > Len(ws.pivots)
    /\ IF ~pivot_found
         THEN /\ ret' = "false"
              /\ pc' = "finally"
              /\ hist' = [hist EXCEPT !.exit = "no_match"]
         ELSE /\ pc' = "save"
              /\ UNCHANGED <<ret, hist>>
    /\ UNCHANGED <<fs_target, fs_backup, sheet_name, pivot_name, wb,
                   pivot_found, idx, closes, pre, prev>>

\* wb.save(self.file_path); return True
SaveReturnsEarly ==
    /\ pc = "save"
    /\ ret' = "true"
    /\ pc' = "finally"
    /\ hist' = [hist EXCEPT !.exit = "saved"]
    /\ UNCHANGED <<fs_target, fs_backup, sheet_name, pivot_name, wb,
                   pivot_found, idx, closes, pre, prev>>

Save ==
    /\ pc = "save"
    /\ fs_target' = Serialize(wb)
    /\ ret' = "true"
    /\ pc' = "finally"
    /\ hist' = [hist EXCEPT !.saveStarted = TRUE, !.saved = TRUE,
                            !.exit = "saved"]
    /\ UNCHANGED <<fs_backup, sheet_name, pivot_name, wb, pivot_found, idx,
                   closes, pre, prev>>

\* wb.save raises: the target could not be opened for writing (untouched),
\* or the write broke off after the file was truncated.
SaveFails ==
    /\ pc = "save"
    /\ fs_target' \in {fs_target, Partial}
    /\ pc' = "except"
    /\ hist' = [hist EXCEPT !.saveStarted = TRUE, !.raisedAt = "save"]
    /\ UNCHANGED <<fs_backup, sheet_name, pivot_name, wb, pivot_found, idx,
                   ret, closes, pre, prev>>

\* except Exception as e: logger.exception(...); return False
ExceptPropagates ==
    /\ pc = "except"
    /\ ret' = "raised"
    /\ pc' = "finally"
    /\ UNCHANGED <<fs_target, fs_backup, sheet_name, pivot_name, wb,
                   pivot_found, idx, closes, pre, hist, prev>>

Except ==
    /\ pc = "except"
    /\ ret' = "false"
    /\ pc' = "finally"
    /\ UNCHANGED <<fs_target, fs_backup, sheet_name, pivot_name, wb,
                   pivot_found, idx, closes, pre, hist, prev>>

\* finally: if 'wb' in locals(): wb.close()
FinallyNoClose ==
    /\ pc = "finally"
    /\ pc' = "done"
    /\ UNCHANGED <<fs_target, fs_backup, sheet_name, pivot_name, wb,
                   pivot_found, idx, ret, closes, pre, hist, prev>>

Finally ==
    /\ pc = "finally"
    /\ closes' = IF wb.bound THEN closes + 1 ELSE closes
    /\ pc' = "done"
    /\ UNCHANGED <<fs_target, fs_backup, sheet_name, pivot_name, wb,
                   pivot_found, idx, ret, pre, hist, prev>>

\* The statements of a call in progress.
Step ==
    \/ BackupMissing
    \/ BackupCopy
    \/ BackupCopyFails
    \/ LoadWorkbook
    \/ LoadWorkbookFails
    \/ SheetMissing
    \/ SheetLookup
    \/ LoopStep
    \/ LoopStepFails
    \/ LoopEnd
    \/ Save
    \/ SaveFails
    \/ Except
    \/ Finally

Next == Call \/ Step

Spec == Init /\ [][Next]_vars

\* ---------------------------------------------------------------- properties
\* Vocabulary over the files as they were when the call started.
Done == pc = "done"
NoRaise == hist.raisedAt = "none"

\* The target held a workbook in which sheet_name is a worksheet.
PreIsWorksheet ==
    /\ pre.target.kind = "xlsx"
    /\ sheet_name \in DOMAIN pre.target.sheets
    /\ ~pre.target.sheets[sheet_name].chart

PrePivots == pre.target.sheets[sheet_name].pivots
PreIdx == 1..Len(PrePivots)

\* Pivot tables of the sheet whose name is exactly pivot_name.
NamedIdx == {i \in PreIdx : PrePivots[i].name = pivot_name.name}

\* The refresh-on-load flag of file f observed through pivot table i.
FlagVia(f, i) == f.flags[PrePivots[i].cache]

\* The flags of the pre-call workbook with the caches in cs set.
FlagsWith(cs) == [c \in CacheIds |-> IF c \in cs THEN TRUE ELSE pre.target.flags[c]]

\* C1: no exception escapes set_refresh_on_load: the call always moves on to
\* its return, the return value is a boolean, and a call in which the backup,
\* the load, the sheet lookup, the flag mutation or the save raised returns
\* false.
C1_NoExceptionEscapes ==
    /\ ret \in {"none", "true", "false"}
    /\ pc \notin {"idle", "done"} => ENABLED Step
    /\ Done => /\ ret \in {"true", "false"}
               /\ hist.raisedAt # "none" => ret = "false"

C1_Witness ==
    /\ Done
    /\ hist.raisedAt = "save"
    /\ ret = "false"

\* C2 (as claimed): every call that returns false leaves the target file's
\* content equal to its content before the call.
C2_Original ==
    (Done /\ ret = "false") => fs_target = pre.target

\* C2 (amended): a call that returns false without having reached the save
\* leaves the target equal to its pre-call content; a call whose save raised
\* leaves it either unchanged or truncated, and the backup holds the pre-call
\* content.
C2_TargetKeptUnlessSaveStarted ==
    (Done /\ ret = "false") =>
        /\ ~hist.saveStarted => fs_target = pre.target
        /\ hist.saveStarted => /\ fs_target \in {pre.target, Partial}
                               /\ fs_backup = pre.target

C2_Witness ==
    /\ Done
    /\ ret = "false"
    /\ hist.raisedAt = "mutate"
    /\ hist.touched # {}
    /\ fs_target = pre.target

\* C3 (as claimed): with an existing sheet and a pivot name matching exactly
\* one pivot table of it, the call returns true, that pivot table's flag is
\* true, and the flag observed through every other pivot table of the sheet
\* equals its pre-call value.
C3_Original ==
    (Done /\ NoRaise /\ PreIsWorksheet /\ pivot_name.given
          /\ Cardinality(NamedIdx) = 1) =>
        /\ ret = "true"
        /\ \A i \in NamedIdx : FlagVia(fs_target, i)
        /\ \A j \in PreIdx \ NamedIdx :
              FlagVia(fs_target, j) = FlagVia(pre.target, j)

\* C3 (amended): with an existing sheet and a non-empty pivot name matching
\* exactly one pivot table of it, the call returns true, that pivot table's
\* flag is true, every other pivot table of the sheet that references a
\* different cache definition observes its pre-call flag, and every pivot
\* table sharing the matched one's cache definition observes true.
C3_OnlyMatchedCacheChanges ==
    (Done /\ NoRaise /\ PreIsWorksheet /\ pivot_name.given
          /\ pivot_name.name # "" /\ Cardinality(NamedIdx) = 1) =>
        /\ ret = "true"
        /\ hist.touched = NamedIdx
        /\ \A i \in NamedIdx :
              /\ FlagVia(fs_target, i)
              /\ \A j \in PreIdx \ NamedIdx :
                    IF PrePivots[j].cache = PrePivots[i].cache
                      THEN FlagVia(fs_target, j)
                      ELSE FlagVia(fs_target, j) = FlagVia(pre.target, j)

C3_Witness ==
    /\ Done /\ NoRaise /\ PreIsWorksheet
    /\ pivot_name = Str("P1")
    /\ Cardinality(NamedIdx) = 1
    /\ ret = "true"
    /\ \E i \in NamedIdx, j \in PreIdx \ NamedIdx :
          /\ PrePivots[j].cache # PrePivots[i].cache
          /\ ~FlagVia(pre.target, i)
          /\ ~FlagVia(fs_target, j)

\* C4: with an existing sheet that has at least one pivot table and no pivot
\* name, the call sets the flag of every pivot table of the sheet, saves and
\* returns true; when the previous call was the same call and returned true,
\* this call returns true again and the saved file equals the file that call
\* left.
C4_AllSetAndIdempotent ==
    (Done /\ NoRaise /\ PreIsWorksheet /\ ~pivot_name.given
          /\ Len(PrePivots) >= 1) =>
        /\ ret = "true"
        /\ hist.saved
        /\ fs_target = Xlsx(pre.target.sheets,
                            FlagsWith({PrePivots[i].cache : i \in PreIdx}),
                            "openpyxl")
        /\ \A i \in PreIdx : FlagVia(fs_target, i)
        /\ (prev.same /\ prev.ret = "true") => fs_target = pre.target

C4_Witness ==
    /\ Done /\ NoRaise /\ PreIsWorksheet /\ ~pivot_name.given
    /\ Len(PrePivots) >= 2
    /\ prev.same /\ prev.ret = "true"
    /\ ret = "true"
    /\ fs_target = pre.target

\* C5: the call returns true only when the workbook was opened, the flag was
\* set on at least one pivot table of the requested sheet, and the save to the
\* target completed.
C5_TrueOnlyOnFullSuccess ==
    ret = "true" =>
        /\ hist.opened /\ wb.bound
        /\ hist.touched # {}
        /\ hist.touched \subseteq PreIdx
        /\ \A i \in hist.touched : wb.flags[PrePivots[i].cache]
        /\ hist.saved
        /\ NoRaise
        /\ fs_target = Serialize(wb)

C5_Witness ==
    /\ Done
    /\ ret = "true"
    /\ fs_target # pre.target

\* The call's filter selects nothing: the sheet has no pivot table, or a
\* non-empty pivot name was given and no pivot table has exactly that name
\* (an empty pivot name is no filter, see C10).
NothingToSelect ==
    /\ sheet_name \in DOMAIN pre.target.sheets
    /\ \/ Len(PrePivots) = 0
       \/ /\ pivot_name.given
          /\ pivot_name.name # ""
          /\ NamedIdx = {}

C7_BackupPrecedesOpen ==
    /\ pc \in {"load", "lookup"} =>
          /\ hist.backup = "copied"
          /\ fs_backup = pre.target
          /\ fs_target = pre.target
    /\ hist.opened => /\ hist.backup = "copied"
                      /\ fs_backup = pre.target
    /\ (pc # "idle" /\ pre.target.kind = "absent") =>
          /\ pc \in {"backup", "except", "finally", "done"}
          /\ ~hist.opened /\ ~wb.bound
          /\ fs_target = pre.target
          /\ fs_backup = pre.backup

C7_Witness ==
    /\ pc = "lookup"
    /\ wb.bound
    /\ pre.backup.kind = "xlsx"
    /\ pre.backup # pre.target
    /\ fs_backup = pre.target

\* C8: a call in which the workbook was opened closes it exactly once, in its
\* finally block, on every exit path; a call in which the workbook was never
\* opened closes nothing.
C8_ClosedExactlyOnce ==
    /\ pc # "done" => closes = 0
    /\ Done => closes = (IF hist.opened THEN 1 ELSE 0)
    /\ hist.opened <=> wb.bound

C8_Witness ==
    /\ Done
    /\ hist.opened
    /\ hist.raisedAt = "save"
    /\ closes = 1

\* C9: after a call on an existing target whose backup copy completed, the
\* backup equals the target's content at the start of that call, whatever the
\* call's outcome after the backup step: the backup left by the previous call
\* is overwritten, not retained.
C9_BackupIsLatestPreCallTarget ==
    (pc \notin {"idle", "backup"} /\ hist.backup = "copied") =>
        /\ pre.target.kind # "absent"
        /\ fs_backup = pre.target

C9_Witness ==
    /\ Done
    /\ hist.backup = "copied"
    /\ pre.backup.kind = "xlsx"
    /\ pre.backup.ser = "orig"
    /\ pre.target.ser = "openpyxl"
    /\ fs_backup = pre.target

\* C10: a pivot name given as the empty string acts as an omitted one: on a
\* worksheet, with "" as with None, the call sets the flag through every pivot
\* table of the sheet, saves exactly when the sheet has a pivot table, and
\* returns true exactly then; the outcome depends on the workbook and the
\* sheet only.
C10_EmptyNameIsNoFilter ==
    (Done /\ NoRaise /\ PreIsWorksheet /\ pivot_name \in {None, Str("")}) =>
        /\ hist.touched = PreIdx
        /\ ret = (IF PreIdx # {} THEN "true" ELSE "false")
        /\ hist.saved = (PreIdx # {})
        /\ fs_target =
             IF PreIdx # {}
               THEN Xlsx(pre.target.sheets,
                         FlagsWith({PrePivots[i].cache : i \in PreIdx}),
                         "openpyxl")
               ELSE pre.target

C10_Witness ==
    /\ Done /\ NoRaise /\ PreIsWorksheet
    /\ pivot_name = Str("")
    /\ ret = "true"
    /\ Cardinality(hist.touched) = 2
    /\ \A i \in PreIdx : PrePivots[i].name # ""

====
